---------------------------- MODULE Spec2Model ----------------------------
(***************************************************************************)
(* pingrs: ICMPv4 Echo Request/Reply probe loop (src/src/main.rs) and      *)
(* packet codec (src/src/icmp.rs).                                         *)
(*                                                                         *)
(* The run is one thread of control (main) plus the Ctrl+C handler, which  *)
(* may store `false` into `running` between any two steps of main.  main   *)
(* is cut at the points where it observes `running`, the socket or the     *)
(* clock; `pc` names the cut.                                              *)
(*                                                                         *)
(* Time is counted in whole seconds since t0 of the probe in progress      *)
(* (`elapsed`); a read blocks for 0..ReadTimeoutSecs seconds.              *)
(***************************************************************************)
EXTENDS Integers, Sequences, FiniteSets, TLC

VARIABLES
    pc,             \* position of main: top, send, poll, read, parse, post, sleep, stats, done
    running,        \* main.rs:29  AtomicBool, cleared by the Ctrl+C handler
    count,          \* main.rs:26  Option<u64>: <<>> is None, <<n>> is Some(n)
    ident,          \* main.rs:55  u16 identifier of the run
    seq,            \* main.rs:62  u16 sequence number of the current probe
    sent_count,     \* main.rs:63  attempts completed
    transmitted,    \* main.rs:66
    received_count, \* main.rs:67
    rtts,           \* main.rs:68  Vec<f64>, milliseconds
    pkt,            \* main.rs:84  the Echo Request last built (<<>> before the first)
    buf,            \* main.rs:100 buf[..n] of the datagram last read in this poll iteration
    elapsed,        \* seconds since t0 (main.rs:87) of the probe in progress
    outcome,        \* how the probe in progress / last finished ended (diagnostic lines 95,107,123,146)
    sleeps,         \* number of calls of thread::sleep (main.rs:171,175) that returned
    nfail,          \* number of send_to calls that returned Err
    ideal,          \* every read so far returned a matching Echo Reply at once
    noise,          \* a datagram was read and discarded during the probe in progress
    report,         \* the statistics printed at exit (<<>> until printed)
    payload_bytes,  \* main.rs:58  payload of the Echo Requests
    sum_input,      \* icmp.rs:2   argument of a call of checksum (codec runs only)
    sum_output      \* icmp.rs:14  <<result>> of that call (<<>> before it returns)

vars == <<pc, running, count, ident, seq, sent_count, transmitted, received_count,
          rtts, pkt, buf, elapsed, outcome, sleeps, nfail, ideal, noise, report,
          payload_bytes, sum_input, sum_output>>

---------------------------------------------------------------------------
(* Bounds of the model *)

MaxCount == 3
MaxAttempts == 3
WrapAttempts == 65537
MaxDatagramLen == 70
MaxPayloadLen == 3
MaxDataLen == 4

(* Program constants *)

U16 == 65536
DeadlineSecs == 2
ReadTimeoutSecs == 2
IcmpEchoRequest == 8
IcmpHeaderLen == 8
MinIpHeaderLen == 20

Payload == <<112, 105, 110, 103, 114, 115, 45, 119, 105, 110, 100, 111, 119, 115>>

---------------------------------------------------------------------------
(* Packet codec: src/src/icmp.rs *)

Hi(w) == (w \div 256) % 256
Lo(w) == w % 256
FromBeBytes(a, b) == a * 256 + b
ToBeBytes(w) == <<Hi(w), Lo(w)>>

(* The u32 accumulator of icmp.rs:3 cannot wrap for inputs shorter than     *)
(* 2^17 bytes (2^16 words of at most 2^16 - 1); the packets built here are *)
(* 8 + Len(Payload) bytes, so wrapping_add is plain addition.              *)
RECURSIVE SumWordsLowByte(_, _, _)
SumWordsLowByte(data, i, sum) ==
    IF Len(data) - i + 1 >= 2
    THEN SumWordsLowByte(data, i + 2, sum + FromBeBytes(data[i], data[i + 1]))
    ELSE IF Len(data) - i + 1 = 1
         THEN sum + data[i]
         ELSE sum

RECURSIVE SumWords(_, _, _)
SumWords(data, i, sum) ==
    IF Len(data) - i + 1 >= 2
    THEN SumWords(data, i + 2, sum + FromBeBytes(data[i], data[i + 1]))
    ELSE IF Len(data) - i + 1 = 1
         THEN sum + data[i] * 256
         ELSE sum

RECURSIVE FoldCarries(_)
FoldCarries(sum) ==
    IF sum \div U16 # 0
    THEN FoldCarries((sum % U16) + (sum \div U16))
    ELSE sum

checksum(data) == (U16 - 1) - (FoldCarries(SumWords(data, 1, 0)) % U16)

SetChecksumLittleEndian(p, csum) ==
    [i \in 1..Len(p) |-> IF i = 3 THEN Lo(csum) ELSE IF i = 4 THEN Hi(csum) ELSE p[i]]

SetChecksum(p, csum) ==
    [i \in 1..Len(p) |-> IF i = 3 THEN Hi(csum) ELSE IF i = 4 THEN Lo(csum) ELSE p[i]]

build_echo_request(id, sq, payload) ==
    LET p == <<IcmpEchoRequest, 0, 0, 0>> \o ToBeBytes(id) \o ToBeBytes(sq) \o payload
    IN  SetChecksum(p, checksum(p))

---------------------------------------------------------------------------
(* Reply recognition: src/src/main.rs:128-144.  b is buf[..n], 1-indexed. *)

StartOfFixed20(b) ==
    IF Len(b) >= MinIpHeaderLen /\ (b[1] \div 16) = 4
    THEN MinIpHeaderLen
    ELSE 0

StartOf(b) ==
    IF Len(b) >= MinIpHeaderLen /\ (b[1] \div 16) = 4
    THEN (b[1] % 16) * 4
    ELSE 0

TooShortOffByOne(b) == Len(b) < StartOf(b) + IcmpHeaderLen - 1

TooShort(b) == Len(b) < StartOf(b) + IcmpHeaderLen

IcmpType(b) == b[StartOf(b) + 1]
IcmpCode(b) == b[StartOf(b) + 2]
ReplyId(b)  == FromBeBytes(b[StartOf(b) + 5], b[StartOf(b) + 6])
ReplySeq(b) == FromBeBytes(b[StartOf(b) + 7], b[StartOf(b) + 8])

IsReplyNoType(b, id, sq) ==
    IcmpCode(b) = 0 /\ ReplyId(b) = id /\ ReplySeq(b) = sq

IsReplyNoSeq(b, id, sq) ==
    IcmpType(b) = 0 /\ IcmpCode(b) = 0 /\ ReplyId(b) = id

IsReply(b, id, sq) ==
    IcmpType(b) = 0 /\ IcmpCode(b) = 0 /\ ReplyId(b) = id /\ ReplySeq(b) = sq

---------------------------------------------------------------------------
(* Sequence numbering: src/src/main.rs:164-165 *)

NextSeqNoSkip(s) == (s + 1) % U16

NextSeq(s) == IF (s + 1) % U16 = 0 THEN 1 ELSE (s + 1) % U16

---------------------------------------------------------------------------
(* Statistics: src/src/main.rs:181-200 *)

(* The loss figure is computed in f64 (src/src/main.rs:182): the division is
   rounded to a 53-bit significand, the product with 100.0 is rounded again,
   and {:.0} then rounds the stored value to an integer, ties to even.  The
   average (src/src/main.rs:194-195) is one f64 division, and {:.3} rounds the
   exact decimal value of the stored quotient to thousandths, ties to even.  A
   positive double is the record [m, e] standing for m * 2^e, with m the
   significand as a sequence of F64Bits bits, most significant first (it does
   not fit the checker's integers).  Operands are below 2^30.  An intermediate
   value is bound through a one-element set, so that it is computed once, and
   the bit loops split their range in halves to keep the evaluation shallow. *)
F64Bits == 53

(* the integer written by bits from..to of b, most significant first *)
RECURSIVE BitsValue(_, _, _)
BitsValue(b, from, to) ==
    IF from > to THEN 0
    ELSE IF from = to THEN b[from]
    ELSE CHOOSE v \in {BitsValue(b, from, mid) * 2^(to - mid) + BitsValue(b, mid + 1, to) :
                       mid \in {(from + to) \div 2}} : TRUE

AnyOne(b, from) == \E i \in from..Len(b) : b[i] = 1

IncBits(b) ==
    IF \A i \in 1..Len(b) : b[i] = 1
    THEN [i \in 1..(Len(b) + 1) |-> IF i = 1 THEN 1 ELSE 0]
    ELSE CHOOSE v \in {[i \in 1..Len(b) |-> IF i < k THEN b[i] ELSE IF i = k THEN 1 ELSE 0] :
                       k \in {j \in 1..Len(b) : b[j] = 0 /\ \A h \in (j + 1)..Len(b) : b[h] = 1}} : TRUE

(* Round b * 2^e (plus a nonzero tail below the last bit when sticky) to the
   nearest double, ties to even; b has at least F64Bits bits and b[1] = 1. *)
RoundToF64(b, e, sticky) ==
    LET n     == Len(b)
        guard == n > F64Bits /\ b[F64Bits + 1] = 1
        rest  == sticky \/ AnyOne(b, F64Bits + 2)
        up    == guard /\ (rest \/ b[F64Bits] = 1)
    IN  IF up
        THEN CHOOSE f \in {[m |-> SubSeq(r, 1, F64Bits), e |-> e + (n - F64Bits) + (Len(r) - F64Bits)] :
                           r \in {IncBits(keep) : keep \in {SubSeq(b, 1, F64Bits)}}} : TRUE
        ELSE [m |-> SubSeq(b, 1, F64Bits), e |-> e + (n - F64Bits)]

(* the least z with a * 2^z >= b, for 0 < a <= b *)
ShiftCount(a, b) ==
    CHOOSE z \in 0..30 : /\ a >= (b + 2^z - 1) \div 2^z
                         /\ z > 0 => a < (b + 2^(z - 1) - 1) \div 2^(z - 1)

(* the next n quotient bits of r / b, 0 <= r < b, and the remainder left *)
RECURSIVE DivBits(_, _, _)
DivBits(r, b, n) ==
    IF n = 0 THEN [bits |-> <<>>, rem |-> r]
    ELSE IF n = 1 THEN [bits |-> <<(2 * r) \div b>>, rem |-> (2 * r) % b]
    ELSE CHOOSE d \in UNION {UNION {{[bits |-> h.bits \o l.bits, rem |-> l.rem] :
                                         l \in {DivBits(h.rem, b, n - half)}} :
                                    h \in {DivBits(r, b, half)}} :
                             half \in {n \div 2}} : TRUE

(* a positive integer below 2^30 as bits, most significant first *)
IntBits(n) ==
    LET w == CHOOSE k \in 1..30 : 2^(k - 1) <= n /\ n \div 2^(k - 1) < 2
    IN  [i \in 1..w |-> (n \div 2^(w - i)) % 2]

(* a as f64 / b as f64 for a >= b > 0: the integer part of the quotient, then
   long division of the remainder up to F64Bits + 1 quotient bits *)
F64DivLarge(a, b) ==
    CHOOSE f \in UNION {UNION {{RoundToF64(q, 0 - Len(d.bits), d.rem # 0) : q \in {w \o d.bits}} :
                               d \in {DivBits(a % b, b, F64Bits + 1 - Len(w))}} :
                        w \in {IntBits(a \div b)}} : TRUE

(* a as f64 / b as f64 for 0 < a < b: binary long division to F64Bits + 1
   quotient bits, the remainder being the sticky tail *)
F64DivSmall(a, b) ==
    CHOOSE f \in UNION {UNION {{RoundToF64(q, 0 - z - F64Bits, d.rem # 0) :
                                   q \in {<<(a * 2^z) \div b>> \o d.bits}} :
                               d \in {DivBits((a * 2^z) % b, b, F64Bits)}} :
                        z \in {ShiftCount(a, b)}} : TRUE

F64Div(a, b) == IF a >= b THEN F64DivLarge(a, b) ELSE F64DivSmall(a, b)

(* bits from..to of b times c plus the carry coming from the bits below *)
RECURSIVE MulBits(_, _, _, _, _)
MulBits(b, from, to, c, carry) ==
    IF from > to THEN [bits |-> <<>>, carry |-> carry]
    ELSE IF from = to THEN [bits |-> <<(b[from] * c + carry) % 2>>, carry |-> (b[from] * c + carry) \div 2]
    ELSE CHOOSE p \in UNION {UNION {{[bits |-> h.bits \o l.bits, carry |-> h.carry] :
                                         h \in {MulBits(b, from, mid, c, l.carry)}} :
                                    l \in {MulBits(b, mid + 1, to, c, carry)}} :
                             mid \in {(from + to) \div 2}} : TRUE

(* f * c for a small integer c > 1: the exact product, rounded once *)
F64MulSmall(f, c) ==
    CHOOSE g \in {RoundToF64(q, f.e, FALSE) :
                  q \in {IntBits(p.carry) \o p.bits : p \in {MulBits(f.m, 1, F64Bits, c, 0)}}} : TRUE

(* the integer nearest to b * 2^e, ties to even, for a value below 2^30 *)
RoundBitsToInt(b, e) ==
    LET d     == Len(b) + e
        int   == BitsValue(b, 1, d)
        guard == b[d + 1] = 1
        rest  == AnyOne(b, d + 2)
    IN  IF d < 0 THEN 0
        ELSE IF d >= Len(b) THEN BitsValue(b, 1, Len(b)) * 2^e
        ELSE IF guard /\ (rest \/ int % 2 = 1) THEN int + 1 ELSE int

(* {:.0} of a positive double *)
FormatRound0(f) == RoundBitsToInt(f.m, f.e)

(* {:.3} of a positive double, in thousandths: the exact product with 1000,
   rounded to an integer *)
FormatRound3(f) ==
    CHOOSE n \in {RoundBitsToInt(q, f.e) :
                  q \in {IntBits(p.carry) \o p.bits : p \in {MulBits(f.m, 1, F64Bits, 1000, 0)}}} : TRUE

LossOf(lost, t) ==
    IF lost = 0 THEN 0
    ELSE CHOOSE n \in {FormatRound0(p) : p \in {F64MulSmall(q, 100) : q \in {F64Div(lost, t)}}} : TRUE

LossPercentOfReceived(t, r) == IF t > 0 THEN LossOf(r, t) ELSE 0

LossPercent(t, r) == IF t > 0 THEN LossOf(t - r, t) ELSE 0

RECURSIVE SeqSum(_)
SeqSum(s) == IF s = <<>> THEN 0 ELSE Head(s) + SeqSum(Tail(s))

SeqMin(s) == CHOOSE x \in {s[i] : i \in 1..Len(s)} : \A j \in 1..Len(s) : x <= s[j]
SeqMax(s) == CHOOSE x \in {s[i] : i \in 1..Len(s)} : \A j \in 1..Len(s) : x >= s[j]

(* sum / len as f64, printed with {:.3}, in thousandths of a millisecond; the
   f64 sum of whole milliseconds is exact *)
AvgThousandths(sum, n) ==
    IF sum = 0 THEN 0
    ELSE CHOOSE v \in {FormatRound3(q) : q \in {F64Div(sum, n)}} : TRUE

RttSummary(s) ==
    IF s = <<>> THEN <<>>
    ELSE <<[min |-> SeqMin(s), avgMicro |-> AvgThousandths(SeqSum(s), Len(s)), max |-> SeqMax(s)]>>

---------------------------------------------------------------------------
(* Inputs: the datagrams the raw socket may deliver while (id, sq) is awaited *)

IpHeader(ihl) == [i \in 1..(ihl * 4) |-> IF i = 1 THEN 64 + ihl ELSE 0]

EchoBody(f) == <<f[1], f[2], 0, 0>> \o ToBeBytes(f[3]) \o ToBeBytes(f[4])

OtherIdent(id) == (id + 1) % U16
EarlierSeq(sq) == IF sq > 1 THEN sq - 1 ELSE U16 - 1

ReplyFields(id, sq) ==
    { <<0, 0, id, sq>>,                 \* the awaited Echo Reply
      <<IcmpEchoRequest, 0, id, sq>>,   \* an Echo Request (e.g. our own, looped back)
      <<0, 1, id, sq>>,                 \* wrong code
      <<0, 0, OtherIdent(id), sq>>,     \* another process's reply
      <<0, 0, id, EarlierSeq(sq)>>,     \* late reply to an earlier probe
      <<0, 0, sq, id>> }                \* identifier and sequence exchanged

Datagrams(id, sq) ==
    { h \o EchoBody(f) : h \in {<<>>, IpHeader(5), IpHeader(6)}, f \in ReplyFields(id, sq) }
    \cup { <<>>,
           SubSeq(EchoBody(<<0, 0, id, sq>>), 1, IcmpHeaderLen - 1),
           SubSeq(IpHeader(5) \o EchoBody(<<0, 0, id, sq>>), 1, 24),
           SubSeq(IpHeader(5), 1, 19) }

Matching(id, sq) == IpHeader(5) \o EchoBody(<<0, 0, id, sq>>)

---------------------------------------------------------------------------
(* State after construction: src/src/main.rs:24-68 *)

Counts == {<<>>} \cup {<<n>> : n \in 0..MaxCount}
Idents == {4660, 1}

InitWith(counts, idents) ==
    /\ pc = "top"
    /\ running = TRUE
    /\ count \in counts
    /\ ident \in idents
    /\ seq = 1
    /\ sent_count = 0
    /\ transmitted = 0
    /\ received_count = 0
    /\ rtts = <<>>
    /\ pkt = <<>>
    /\ buf = <<>>
    /\ elapsed = 0
    /\ outcome = "none"
    /\ sleeps = 0
    /\ nfail = 0
    /\ ideal = TRUE
    /\ noise = FALSE
    /\ report = <<>>
    /\ payload_bytes = Payload
    /\ sum_input = <<>>
    /\ sum_output = <<>>

Init == InitWith(Counts, Idents)

InitFair == InitWith(Counts, {4660})

InitWrap == InitWith({<<>>}, {4660})

---------------------------------------------------------------------------
(* Ctrl+C handler: src/src/main.rs:31-33 *)

Cancel ==
    /\ pc # "done"
    /\ running
    /\ running' = FALSE
    /\ UNCHANGED <<pc, count, ident, seq, sent_count, transmitted, received_count,
                   rtts, pkt, buf, elapsed, outcome, sleeps, nfail, ideal, noise, report>>
    /\ UNCHANGED <<payload_bytes, sum_input, sum_output>>

(* Loop top: src/src/main.rs:70-81.  cap bounds an unbounded run in the model. *)

LimitReachedOffByOne == count # <<>> /\ sent_count > count[1]

LimitReached == count # <<>> /\ sent_count >= count[1]

LoopTopNoCancelCheck(cap) ==
    /\ pc = "top"
    /\ ~LimitReached => sent_count < cap
    /\ pc' = IF LimitReached THEN "stats" ELSE "send"
    /\ UNCHANGED <<running, count, ident, seq, sent_count, transmitted, received_count,
                   rtts, pkt, buf, elapsed, outcome, sleeps, nfail, ideal, noise, report>>
    /\ UNCHANGED <<payload_bytes, sum_input, sum_output>>

LoopTopUpTo(cap) ==
    /\ pc = "top"
    /\ (running /\ ~LimitReached) => sent_count < cap
    /\ pc' = IF ~running \/ LimitReached THEN "stats" ELSE "send"
    /\ UNCHANGED <<running, count, ident, seq, sent_count, transmitted, received_count,
                   rtts, pkt, buf, elapsed, outcome, sleeps, nfail, ideal, noise, report>>
    /\ UNCHANGED <<payload_bytes, sum_input, sum_output>>

LoopTop == LoopTopUpTo(MaxAttempts)

LoopTopWrap == LoopTopUpTo(WrapAttempts)

(* Build and send: src/src/main.rs:84-98 *)

SendWithUncounted(ok) ==
    /\ pc = "send"
    /\ pkt' = build_echo_request(ident, seq, payload_bytes)
    /\ noise' = FALSE
    /\ elapsed' = 0
    /\ IF ok
       THEN /\ transmitted' = transmitted + 1
            /\ pc' = "poll"
            /\ outcome' = "none"
            /\ nfail' = nfail
       ELSE /\ transmitted' = transmitted
            /\ pc' = "post"
            /\ outcome' = "sendfail"
            /\ nfail' = nfail + 1
    /\ UNCHANGED <<running, count, ident, seq, sent_count, received_count,
                   rtts, buf, sleeps, ideal, report>>
    /\ UNCHANGED <<payload_bytes, sum_input, sum_output>>

SendWith(ok) ==
    /\ pc = "send"
    /\ pkt' = build_echo_request(ident, seq, payload_bytes)
    /\ noise' = FALSE
    /\ elapsed' = 0
    /\ transmitted' = transmitted + 1
    /\ IF ok
       THEN /\ pc' = "poll"
            /\ outcome' = "none"
            /\ nfail' = nfail
       ELSE /\ pc' = "post"
            /\ outcome' = "sendfail"
            /\ nfail' = nfail + 1
    /\ UNCHANGED <<running, count, ident, seq, sent_count, received_count,
                   rtts, buf, sleeps, ideal, report>>
    /\ UNCHANGED <<payload_bytes, sum_input, sum_output>>

SendOk == SendWith(TRUE)

SendFail == SendWith(FALSE)

(* Receive-poll loop head: src/src/main.rs:105-114 *)

DeadlineReached == elapsed >= DeadlineSecs

PollCheckNoDeadline ==
    /\ pc = "poll"
    /\ IF ~running
       THEN pc' = "post" /\ outcome' = "cancelled"
       ELSE pc' = "read" /\ outcome' = outcome
    /\ UNCHANGED <<running, count, ident, seq, sent_count, transmitted, received_count,
                   rtts, pkt, buf, elapsed, sleeps, nfail, ideal, noise, report>>
    /\ UNCHANGED <<payload_bytes, sum_input, sum_output>>

PollCheck ==
    /\ pc = "poll"
    /\ IF DeadlineReached
       THEN pc' = "post" /\ outcome' = "timeout"
       ELSE IF ~running
            THEN pc' = "post" /\ outcome' = "cancelled"
            ELSE pc' = "read" /\ outcome' = outcome
    /\ UNCHANGED <<running, count, ident, seq, sent_count, transmitted, received_count,
                   rtts, pkt, buf, elapsed, sleeps, nfail, ideal, noise, report>>
    /\ UNCHANGED <<payload_bytes, sum_input, sum_output>>

(* sock.read: src/src/main.rs:117-126.  The socket's read timeout          *)
(* (main.rs:49) bounds how long one read blocks, whenever it starts.        *)

ReadData(d, dt) ==
    /\ pc = "read"
    /\ buf' = d
    /\ elapsed' = elapsed + dt
    /\ ideal' = (ideal /\ dt = 0 /\ d = Matching(ident, seq))
    /\ pc' = "parse"
    /\ UNCHANGED <<running, count, ident, seq, sent_count, transmitted, received_count,
                   rtts, pkt, outcome, sleeps, nfail, noise, report>>
    /\ UNCHANGED <<payload_bytes, sum_input, sum_output>>

ReadNow == \E d \in Datagrams(ident, seq) : ReadData(d, 0)

ReadLater == \E d \in Datagrams(ident, seq), dt \in 1..ReadTimeoutSecs : ReadData(d, dt)

ReadTimedOut ==
    /\ pc = "read"
    /\ elapsed' = elapsed + ReadTimeoutSecs
    /\ ideal' = FALSE
    /\ pc' = "poll"
    /\ UNCHANGED <<running, count, ident, seq, sent_count, transmitted, received_count,
                   rtts, pkt, buf, outcome, sleeps, nfail, noise, report>>
    /\ UNCHANGED <<payload_bytes, sum_input, sum_output>>

ReadErrorFatal ==
    /\ pc = "read"
    /\ \E dt \in 0..ReadTimeoutSecs : elapsed' = elapsed + dt
    /\ ideal' = FALSE
    /\ pc' = "stats"
    /\ outcome' = "readerr"
    /\ UNCHANGED <<running, count, ident, seq, sent_count, transmitted, received_count,
                   rtts, pkt, buf, sleeps, nfail, noise, report>>
    /\ UNCHANGED <<payload_bytes, sum_input, sum_output>>

ReadError ==
    /\ pc = "read"
    /\ \E dt \in 0..ReadTimeoutSecs : elapsed' = elapsed + dt
    /\ ideal' = FALSE
    /\ pc' = "post"
    /\ outcome' = "readerr"
    /\ UNCHANGED <<running, count, ident, seq, sent_count, transmitted, received_count,
                   rtts, pkt, buf, sleeps, nfail, noise, report>>
    /\ UNCHANGED <<payload_bytes, sum_input, sum_output>>

(* Recognise the datagram: src/src/main.rs:128-154.  n is dropped at the    *)
(* end of the iteration, so buf[..n] is empty again afterwards.             *)

ParseBreaksOnNoise ==
    /\ pc = "parse"
    /\ buf' = <<>>
    /\ IF ~TooShort(buf) /\ IsReply(buf, ident, seq)
       THEN /\ received_count' = received_count + 1
            /\ rtts' = Append(rtts, elapsed * 1000)
            /\ outcome' = "replied"
            /\ pc' = "post"
            /\ noise' = noise
       ELSE /\ pc' = "post"
            /\ noise' = TRUE
            /\ UNCHANGED <<received_count, rtts, outcome>>
    /\ UNCHANGED <<running, count, ident, seq, sent_count, transmitted,
                   pkt, elapsed, sleeps, nfail, ideal, report>>
    /\ UNCHANGED <<payload_bytes, sum_input, sum_output>>

ParseKeepsPolling ==
    /\ pc = "parse"
    /\ buf' = <<>>
    /\ IF ~TooShort(buf) /\ IsReply(buf, ident, seq)
       THEN /\ received_count' = received_count + 1
            /\ rtts' = Append(rtts, elapsed * 1000)
            /\ outcome' = "replied"
            /\ pc' = "poll"
            /\ noise' = noise
       ELSE /\ pc' = "poll"
            /\ noise' = TRUE
            /\ UNCHANGED <<received_count, rtts, outcome>>
    /\ UNCHANGED <<running, count, ident, seq, sent_count, transmitted,
                   pkt, elapsed, sleeps, nfail, ideal, report>>
    /\ UNCHANGED <<payload_bytes, sum_input, sum_output>>

Parse ==
    /\ pc = "parse"
    /\ buf' = <<>>
    /\ IF ~TooShort(buf) /\ IsReply(buf, ident, seq)
       THEN /\ received_count' = received_count + 1
            /\ rtts' = Append(rtts, elapsed * 1000)
            /\ outcome' = "replied"
            /\ pc' = "post"
            /\ noise' = noise
       ELSE /\ pc' = "poll"
            /\ noise' = TRUE
            /\ UNCHANGED <<received_count, rtts, outcome>>
    /\ UNCHANGED <<running, count, ident, seq, sent_count, transmitted,
                   pkt, elapsed, sleeps, nfail, ideal, report>>
    /\ UNCHANGED <<payload_bytes, sum_input, sum_output>>

(* End of the attempt: src/src/main.rs:156-176.  t0 and deadline go out of *)
(* scope at line 155, so elapsed is 0 again.                               *)

SleepsAfterAlways(sent) == TRUE

SleepsAfter(sent) == IF count # <<>> THEN sent < count[1] ELSE TRUE

PostNoCancelCheck ==
    /\ pc = "post"
    /\ sent_count' = sent_count + 1
    /\ elapsed' = 0
    /\ seq' = NextSeq(seq)
    /\ pc' = IF SleepsAfter(sent_count') THEN "sleep" ELSE "top"
    /\ UNCHANGED <<running, count, ident, transmitted, received_count,
                   rtts, pkt, buf, outcome, sleeps, nfail, ideal, noise, report>>
    /\ UNCHANGED <<payload_bytes, sum_input, sum_output>>

Post ==
    /\ pc = "post"
    /\ sent_count' = sent_count + 1
    /\ elapsed' = 0
    /\ IF ~running
       THEN pc' = "stats" /\ seq' = seq
       ELSE /\ seq' = NextSeq(seq)
            /\ pc' = IF SleepsAfter(sent_count') THEN "sleep" ELSE "top"
    /\ UNCHANGED <<running, count, ident, transmitted, received_count,
                   rtts, pkt, buf, outcome, sleeps, nfail, ideal, noise, report>>
    /\ UNCHANGED <<payload_bytes, sum_input, sum_output>>

Sleep ==
    /\ pc = "sleep"
    /\ sleeps' = sleeps + 1
    /\ pc' = "top"
    /\ UNCHANGED <<running, count, ident, seq, sent_count, transmitted, received_count,
                   rtts, pkt, buf, elapsed, outcome, nfail, ideal, noise, report>>
    /\ UNCHANGED <<payload_bytes, sum_input, sum_output>>

(* Statistics at exit: src/src/main.rs:179-202 *)

StatsOnlyWhenRunning ==
    /\ pc = "stats"
    /\ report' = IF running
                 THEN <<[transmitted |-> transmitted,
                         received |-> received_count,
                         lossPercent |-> LossPercent(transmitted, received_count),
                         rtt |-> RttSummary(rtts)]>>
                 ELSE <<>>
    /\ pc' = "done"
    /\ UNCHANGED <<running, count, ident, seq, sent_count, transmitted, received_count,
                   rtts, pkt, buf, elapsed, outcome, sleeps, nfail, ideal, noise>>
    /\ UNCHANGED <<payload_bytes, sum_input, sum_output>>

Stats ==
    /\ pc = "stats"
    /\ report' = <<[transmitted |-> transmitted,
                    received |-> received_count,
                    lossPercent |-> LossPercent(transmitted, received_count),
                    rtt |-> RttSummary(rtts)]>>
    /\ pc' = "done"
    /\ UNCHANGED <<running, count, ident, seq, sent_count, transmitted, received_count,
                   rtts, pkt, buf, elapsed, outcome, sleeps, nfail, ideal, noise>>
    /\ UNCHANGED <<payload_bytes, sum_input, sum_output>>

---------------------------------------------------------------------------
(* Specifications *)

Next ==
    \/ Cancel
    \/ LoopTop
    \/ SendOk
    \/ SendFail
    \/ PollCheck
    \/ ReadNow
    \/ ReadLater
    \/ ReadTimedOut
    \/ ReadError
    \/ Parse
    \/ Post
    \/ Sleep
    \/ Stats

Spec == Init /\ [][Next]_vars

(* main always takes its next step, and the clock advances: a poll loop    *)
(* cannot read datagrams for ever without a read taking any time.          *)
Main ==
    \/ LoopTop \/ SendOk \/ SendFail \/ PollCheck \/ ReadNow \/ ReadLater
    \/ ReadTimedOut \/ ReadError \/ Parse \/ Post \/ Sleep \/ Stats

ReadAdvance == ReadLater \/ ReadTimedOut \/ ReadError

FairSpec == InitFair /\ [][Next]_vars /\ WF_vars(Main) /\ SF_vars(ReadAdvance)

(* An unbounded run whose sends all fail: the sequence counter runs through *)
(* the whole u16 range.                                                     *)
NextWrap ==
    \/ Cancel
    \/ LoopTopWrap
    \/ SendFail
    \/ Post
    \/ Sleep
    \/ Stats

SpecWrap == InitWrap /\ [][NextWrap]_vars

---------------------------------------------------------------------------
(* The codec on its own: one call of build_echo_request (icmp.rs:18) or of *)
(* checksum (icmp.rs:2) on inputs drawn from bounded sets.                 *)

SeqsUpTo(S, n) == UNION {[1..k -> S] : k \in 0..n}

CodecBytes == {0, 1, 171, 255}
CodecWords == {0, 1, 4660, 65535}

PayloadInputs == SeqsUpTo(CodecBytes, MaxPayloadLen) \cup {<<97, 98, 99>>, Payload}

ChecksumInputs ==
    SeqsUpTo(CodecBytes, MaxDataLen) \cup {[i \in 1..IcmpHeaderLen |-> 0]}

InitCodec ==
    /\ \/ /\ pc = "build"
          /\ ident \in CodecWords
          /\ seq \in CodecWords
          /\ payload_bytes \in PayloadInputs
          /\ sum_input = <<>>
       \/ /\ pc = "checksum"
          /\ ident = 4660
          /\ seq = 1
          /\ payload_bytes = Payload
          /\ sum_input \in ChecksumInputs
    /\ running = TRUE
    /\ count = <<>>
    /\ sent_count = 0
    /\ transmitted = 0
    /\ received_count = 0
    /\ rtts = <<>>
    /\ pkt = <<>>
    /\ buf = <<>>
    /\ elapsed = 0
    /\ outcome = "none"
    /\ sleeps = 0
    /\ nfail = 0
    /\ ideal = TRUE
    /\ noise = FALSE
    /\ report = <<>>
    /\ sum_output = <<>>

BuildRequest ==
    /\ pc = "build"
    /\ pkt' = build_echo_request(ident, seq, payload_bytes)
    /\ pc' = "built"
    /\ UNCHANGED <<running, count, ident, seq, sent_count, transmitted, received_count,
                   rtts, buf, elapsed, outcome, sleeps, nfail, ideal, noise, report>>
    /\ UNCHANGED <<payload_bytes, sum_input, sum_output>>

ApplyChecksum ==
    /\ pc = "checksum"
    /\ sum_output' = <<checksum(sum_input)>>
    /\ pc' = "summed"
    /\ UNCHANGED <<running, count, ident, seq, sent_count, transmitted, received_count,
                   rtts, pkt, buf, elapsed, outcome, sleeps, nfail, ideal, noise, report>>
    /\ UNCHANGED <<payload_bytes, sum_input>>

NextCodec == BuildRequest \/ ApplyChecksum

SpecCodec == InitCodec /\ [][NextCodec]_vars

TypeOK ==
    /\ pc \in {"top", "send", "poll", "read", "parse", "post", "sleep", "stats", "done"}
    /\ running \in BOOLEAN
    /\ seq \in 0..(U16 - 1)
    /\ elapsed \in 0..(DeadlineSecs + ReadTimeoutSecs)

---------------------------------------------------------------------------
(* Properties *)

Limit == count[1]
HasLimit == count # <<>>
Finished == pc = "done"
Printed == report[1]
WireSeq(p) == FromBeBytes(p[7], p[8])
SeqAfter(s) == IF s = U16 - 1 THEN 1 ELSE s + 1

(* C1: with a count limit N >= 1, no cancellation, every send succeeding   *)
(* and every read returning the matching Echo Reply at once, the run ends  *)
(* with transmitted = N, received = N and lossPercent = 0.                 *)
C1_AllReplied ==
    (Finished /\ running /\ HasLimit /\ Limit >= 1 /\ ideal /\ nfail = 0)
        => /\ Printed.transmitted = Limit
           /\ Printed.received = Limit
           /\ Printed.lossPercent = 0

C1_Witness ==
    /\ Finished /\ running /\ count = <<3>> /\ ideal /\ nfail = 0
    /\ Printed.received = 3
    /\ Len(rtts) = 3

(* C2: a probe whose send fails is counted as transmitted and never as     *)
(* received: with count limit N, no cancellation, F the probes whose send  *)
(* failed and every other probe answered at once, the run ends with        *)
(* transmitted = N and received = N - |F|; N = 2 with the second send      *)
(* failing gives 2, 1 and 50 percent loss.                                 *)
C2_SendFailureCounted ==
    /\ [][nfail' # nfail =>
            /\ nfail' = nfail + 1
            /\ transmitted' = transmitted + 1
            /\ received_count' = received_count /\ rtts' = rtts
            /\ pc' = "post"]_vars
    /\ []((Finished /\ running /\ HasLimit /\ ideal)
            => /\ Printed.transmitted = Limit
               /\ Printed.received = Limit - nfail
               /\ (Limit = 2 /\ nfail = 1) => Printed.lossPercent = 50)

C2_Witness ==
    /\ Finished /\ running /\ count = <<2>> /\ ideal /\ nfail = 1
    /\ outcome = "sendfail"
    /\ Printed.transmitted = 2 /\ Printed.received = 1 /\ Printed.lossPercent = 50

(* C3: when the cancellation flag is set before the first probe begins,    *)
(* no Echo Request is ever built or sent, the run goes straight to the     *)
(* statistics, and these report transmitted = 0, received = 0 and no RTT   *)
(* summary, with or without a count limit.                                 *)
CancelledAtStart == pc = "top" /\ sent_count = 0 /\ ~running

C3_CancelledBeforeFirstProbe ==
    /\ [](CancelledAtStart =>
            [](/\ transmitted = 0 /\ received_count = 0 /\ pkt = <<>>
               /\ pc \in {"top", "stats", "done"}
               /\ Finished => Printed = [transmitted |-> 0, received |-> 0,
                                         lossPercent |-> 0, rtt |-> <<>>]))
    /\ [](CancelledAtStart => <>Finished)

C3_Witness ==
    /\ Finished /\ ~running /\ pkt = <<>> /\ sent_count = 0
    /\ Printed.transmitted = 0 /\ Printed.rtt = <<>>

(* C4: the sequence number of every probe is in 1..65535: the first probe  *)
(* carries 1, each next probe the previous number plus 1, and the probe    *)
(* after 65535 carries 1; 0 is never put on the wire.                      *)
C4_SequenceNumbers ==
    /\ [](seq \in 1..(U16 - 1))
    /\ [](pkt # <<>> => WireSeq(pkt) \in 1..(U16 - 1))
    /\ [][transmitted' = transmitted + 1 =>
            /\ WireSeq(pkt') = seq
            /\ pkt = <<>> => WireSeq(pkt') = 1
            /\ pkt # <<>> => WireSeq(pkt') = SeqAfter(WireSeq(pkt))]_vars

C4_Witness == transmitted = U16 /\ WireSeq(pkt) = 1 /\ seq = 1

(* C5: with a count limit N the run never makes more than N send attempts, *)
(* and if it is never cancelled it stops having made exactly N (none when  *)
(* N = 0), whatever the socket does; with a limit the run always stops.    *)
C5_CountLimit ==
    /\ [](HasLimit => transmitted <= Limit /\ sent_count <= Limit)
    /\ []((HasLimit /\ Finished /\ running) =>
            transmitted = Limit /\ sent_count = Limit /\ Printed.transmitted = Limit)
    /\ (HasLimit => <>Finished)

C5_Witness ==
    /\ Finished /\ running /\ count = <<3>> /\ transmitted = 3
    /\ nfail = 1 /\ received_count = 1 /\ ~ideal

(* C6: when the receive-poll loop observes the cancellation flag, the run  *)
(* ends: the probe gets no reply recorded, and from then on no Echo        *)
(* Request is sent and no sleep is taken before the statistics.            *)
C6_CancelInPoll ==
    /\ [][(outcome' = "cancelled" /\ outcome # "cancelled") =>
            /\ pc = "poll" /\ pc' = "post" /\ ~running
            /\ received_count' = received_count /\ rtts' = rtts]_vars
    /\ [][outcome = "cancelled" =>
            /\ outcome' = "cancelled"
            /\ transmitted' = transmitted /\ pkt' = pkt
            /\ received_count' = received_count /\ rtts' = rtts
            /\ sleeps' = sleeps
            /\ pc' \in {"post", "stats", "done"}]_vars
    /\ [](outcome = "cancelled" => <>Finished)

C6_Witness ==
    /\ Finished /\ outcome = "cancelled" /\ transmitted = 2 /\ sent_count = 2
    /\ received_count = 1 /\ sleeps = 1

(* The fields of a received datagram d as the wire format defines them:   *)
(* an IPv4 header of IHL words first when d has at least 20 bytes and its  *)
(* version nibble is 4.                                                    *)
WireSkip(d) == IF Len(d) >= 20 /\ d[1] \div 16 = 4 THEN (d[1] % 16) * 4 ELSE 0

WireParses(d) == Len(d) >= WireSkip(d) + 8

WireMatches(d, id, sq) ==
    /\ WireParses(d)
    /\ d[WireSkip(d) + 1] = 0
    /\ d[WireSkip(d) + 2] = 0
    /\ d[WireSkip(d) + 5] * 256 + d[WireSkip(d) + 6] = id
    /\ d[WireSkip(d) + 7] * 256 + d[WireSkip(d) + 8] = sq

(* C7: once the deadline t0 + DeadlineSecs has passed without a matching   *)
(* reply, the probe is lost: no reply is counted and no RTT recorded for   *)
(* it, also when the matching reply is delivered after the deadline.       *)
C7_NoReplyAfterDeadline ==
    [][(received_count' # received_count \/ rtts' # rtts) => elapsed <= DeadlineSecs]_vars

(* C8: a send failure or a hard receive error never ends the run: the      *)
(* probe is counted as transmitted and not as received, the run goes to    *)
(* the statistics only on cancellation or at the count limit, and          *)
(* otherwise the next probe is sent with the next sequence number.         *)
ProbeFailed == outcome \in {"sendfail", "readerr"}

C8_ProbeFailureNotFatal ==
    /\ [][(pc' = "stats" /\ pc # "stats") => (~running \/ LimitReached)]_vars
    /\ [][(pc' = "post" /\ pc # "post" /\ outcome' \in {"sendfail", "readerr"}) =>
            /\ received_count' = received_count /\ rtts' = rtts
            /\ transmitted' = sent_count' + 1]_vars
    /\ [][(pc = "post" /\ pc' # "post" /\ ProbeFailed /\ running) =>
            /\ seq' = SeqAfter(seq)
            /\ sent_count' = sent_count + 1
            /\ pc' \in {"sleep", "top"}]_vars
    /\ [][(pc \in {"sleep", "top"} /\ pc' # pc /\ running /\ ~LimitReached) =>
            pc' \in {"top", "send"}]_vars
    /\ [][(pc = "send" /\ pc' # "send" /\ ProbeFailed) =>
            WireSeq(pkt') = SeqAfter(WireSeq(pkt))]_vars

C8_Witness ==
    /\ pc = "send" /\ running /\ outcome = "readerr" /\ nfail = 1
    /\ sent_count = 2 /\ transmitted = 2 /\ received_count = 0 /\ seq = 3

(* C9: a reply is recorded (received plus one, one RTT appended, polling   *)
(* stopped) only for a datagram that, after the IPv4-header skip, has      *)
(* type 0, code 0, the run's identifier and the sequence number of the     *)
(* probe awaited, which is the one last sent.                              *)
C9_OnlyMatchingReplyCounts ==
    [][(received_count' # received_count \/ rtts' # rtts) =>
          /\ pc = "parse" /\ pc' = "post"
          /\ received_count' = received_count + 1
          /\ rtts' = Append(rtts, elapsed * 1000)
          /\ WireMatches(buf, ident, seq)
          /\ seq = WireSeq(pkt)]_vars

C9_Witness ==
    /\ pc = "post" /\ outcome = "replied" /\ noise
    /\ seq = 2 /\ received_count = 2 /\ Len(rtts) = 2

(* C10: a datagram that does not parse or does not match leaves            *)
(* transmitted, received, the RTTs and the sequence number unchanged and   *)
(* the probe polling; polling then reads again unless the deadline is      *)
(* reached or the run cancelled.                                           *)
C10_NoiseKeepsPolling ==
    /\ [][(pc = "parse" /\ pc' # "parse" /\ ~WireMatches(buf, ident, seq)) =>
            /\ pc' = "poll"
            /\ UNCHANGED <<transmitted, received_count, rtts, seq, sent_count, pkt, elapsed>>]_vars
    /\ [][(pc = "poll" /\ pc' # "poll" /\ noise /\ running /\ elapsed < DeadlineSecs) =>
            pc' = "read"]_vars

C10_Witness ==
    /\ pc = "post" /\ outcome = "replied" /\ noise
    /\ transmitted = 1 /\ rtts = <<1000>>

(* C11: a run with count limit N sleeps after each attempt except the N-th, *)
(* and a run without a limit sleeps after every attempt (while the run is  *)
(* not cancelled, which ends it before the sleep).                         *)
SleepsDue ==
    IF HasLimit /\ sent_count >= Limit
    THEN (IF Limit = 0 THEN 0 ELSE Limit - 1)
    ELSE sent_count

C11_SleepPlacement ==
    /\ [](running => sleeps = SleepsDue - (IF pc = "sleep" THEN 1 ELSE 0))
    /\ []((pc \in {"poll", "read", "parse", "post"}) => sleeps = transmitted - 1)
    /\ [][(pc = "post" /\ pc' # "post" /\ running) =>
            (pc' = "sleep") = (~HasLimit \/ sent_count + 1 < Limit)]_vars
    /\ [][sleeps' # sleeps => (pc = "sleep" /\ sleeps' = sleeps + 1)]_vars

C11_Witness ==
    /\ Finished /\ running /\ count = <<3>> /\ sent_count = 3 /\ sleeps = 2

(* C12: cancellation is a normal way out: once the flag is set, wherever   *)
(* main is, the run reaches the statistics, which report the transmitted   *)
(* and received counts accumulated so far.                                 *)
C12_CancelReachesStatistics ==
    /\ [](~running => <>Finished)
    /\ [](Finished =>
            /\ report # <<>>
            /\ Printed.transmitted = transmitted
            /\ Printed.received = received_count
            /\ Printed.lossPercent = LossPercent(transmitted, received_count))
    /\ [][pc' = "done" => pc = "stats"]_vars

C12_Witness ==
    /\ Finished /\ ~running /\ count = <<>> /\ outcome = "cancelled"
    /\ Printed.transmitted = 2 /\ Printed.received = 1

(* C17: in every state received <= transmitted, there is one RTT per      *)
(* reply, the probe in progress has no reply counted until the step that   *)
(* ends its polling (so a probe contributes at most one), and transmitted  *)
(* is sent_count, or sent_count + 1 while a probe is in progress.          *)
InProbe == pc \in {"poll", "read", "parse", "post"}

C17_CounterInvariants ==
    /\ received_count <= transmitted
    /\ Len(rtts) = received_count
    /\ transmitted = sent_count + (IF InProbe THEN 1 ELSE 0)
    /\ received_count <= sent_count + (IF pc = "post" /\ outcome = "replied" THEN 1 ELSE 0)

C17_Witness ==
    /\ pc = "post" /\ outcome = "replied" /\ noise
    /\ transmitted = 3 /\ sent_count = 2 /\ received_count = 3 /\ Len(rtts) = 3

(* C18: the loop never sets the flag again, and after the flag is set at   *)
(* most one Echo Request is sent: main never enters the send position with *)
(* the flag set, so the only send is one whose loop-top check had passed.  *)
C18_AtMostOneSendAfterCancel ==
    /\ [][~running => ~running']_vars
    /\ [][(~running /\ pc' = "send") => pc = "send"]_vars
    /\ [][(~running /\ transmitted' # transmitted) =>
            (pc = "send" /\ pc' # "send" /\ transmitted' = transmitted + 1)]_vars
    /\ \A k \in 0..(MaxAttempts + 1) :
          []((~running /\ transmitted = k) => [](transmitted <= k + 1))

C18_Witness ==
    /\ pc = "poll" /\ ~running /\ elapsed = 0 /\ outcome = "none"
    /\ transmitted = 2 /\ sent_count = 1 /\ WireSeq(pkt) = 2

(* C19: every receive-poll loop ends: a read is made only before the       *)
(* deadline, a read that times out returns to the loop head with nothing   *)
(* counted, and the first loop head at or after the deadline ends the      *)
(* probe as lost, whatever the socket delivers.                            *)
Polling == pc \in {"poll", "read", "parse"}

C19_PollLoopEnds ==
    /\ [](Polling => <>(pc = "post"))
    /\ [](pc = "read" => elapsed < DeadlineSecs)
    /\ [][(pc = "read" /\ pc' = "poll") =>
            /\ elapsed' = elapsed + ReadTimeoutSecs
            /\ UNCHANGED <<received_count, rtts, outcome, transmitted, seq>>]_vars
    /\ [][(pc = "poll" /\ pc' # "poll" /\ elapsed >= DeadlineSecs) =>
            /\ pc' = "post" /\ outcome' = "timeout"
            /\ UNCHANGED <<received_count, rtts>>]_vars

C19_Witness ==
    /\ pc = "post" /\ outcome = "timeout" /\ noise /\ elapsed = DeadlineSecs + 1
    /\ received_count = 0

(* C13: for every identifier, sequence number and payload, of even or odd *)
(* length, the checksum of the complete packet built by                    *)
(* build_echo_request, checksum field filled in, is 0.                     *)
C13_ChecksumSelfVerifies ==
    pc = "built" =>
        /\ Len(pkt) = IcmpHeaderLen + Len(payload_bytes)
        /\ checksum(pkt) = 0

C13_Witness ==
    /\ pc = "built" /\ ident = 4660 /\ seq = 1 /\ payload_bytes = <<97, 98, 99>>
    /\ Len(pkt) = 11 /\ pkt[1] = 8 /\ pkt[2] = 0
    /\ <<pkt[5], pkt[6], pkt[7], pkt[8]>> = <<18, 52, 0, 1>>
    /\ <<pkt[3], pkt[4]>> # <<0, 0>>

(* C14: the checksum of an odd-length input equals the checksum of the     *)
(* input followed by one zero byte ([0xAB] and [0xAB, 0x00] both give      *)
(* 0x54FF), and the checksum of eight zero bytes is 0xFFFF.                *)
C14_OddLengthPadding ==
    pc = "summed" =>
        /\ Len(sum_input) % 2 = 1 => sum_output = <<checksum(Append(sum_input, 0))>>
        /\ sum_input = <<171>> => sum_output = <<21759>>
        /\ sum_input = <<0, 0, 0, 0, 0, 0, 0, 0>> => sum_output = <<65535>>

C14_Witness ==
    /\ pc = "summed" /\ sum_input = <<255, 171, 1>> /\ sum_output = <<checksum(<<255, 171, 1, 0>>)>>

---------------------------------------------------------------------------
(* Reply recognition on its own: main is at line 128 with an arbitrary     *)
(* datagram in buf[..n], awaiting (ident, seq) after seq - 1 lost probes.  *)

(* n bytes: first byte b0, the awaited reply's ICMP header at offset off,  *)
(* fill elsewhere.                                                         *)
MakeBuf(n, b0, off, fill, id, sq) ==
    [i \in 1..n |->
        IF i = 1 THEN b0
        ELSE IF i - off \in 1..IcmpHeaderLen THEN EchoBody(<<0, 0, id, sq>>)[i - off]
        ELSE fill]

BufFamily(lens, firsts, offs, fills, id, sq) ==
    {MakeBuf(n, b0, off, fill, id, sq) : n \in lens, b0 \in firsts, off \in offs, fill \in fills}

AnyBuffers(id, sq) ==
    BufFamily(0..MaxDatagramLen, 0..255, {0, 20}, {0}, id, sq)

ShortBuffers(id, sq) ==
    {b \in BufFamily(0..MaxDatagramLen, {0, 8, 255} \cup 64..79, {0, 20, 24}, {0, 255}, id, sq) :
        Len(b) < WireSkip(b) + 8}

Len19Buffers(id, sq) ==
    BufFamily({19}, {69}, 0..11, {0, 255}, id, sq)

(* Indices of buf (from 0) read by lines 129-142 *)
BufReads(b) ==
    (IF Len(b) >= MinIpHeaderLen THEN {0} ELSE {})
    \cup (IF TooShort(b) THEN {} ELSE {StartOf(b) + k : k \in {0, 1, 4, 5, 6, 7}})

BuffersOf(family, id, sq) ==
    CASE family = "any" -> AnyBuffers(id, sq)
      [] family = "short" -> ShortBuffers(id, sq)
      [] family = "len19" -> Len19Buffers(id, sq)

InitParseWith(family, idents, seqs) ==
    /\ pc = "parse"
    /\ running = TRUE
    /\ count = <<>>
    /\ ident \in idents
    /\ seq \in seqs
    /\ sent_count = seq - 1
    /\ transmitted = seq
    /\ received_count = 0
    /\ rtts = <<>>
    /\ pkt = build_echo_request(ident, seq, Payload)
    /\ buf \in BuffersOf(family, ident, seq)
    /\ elapsed = 0
    /\ outcome = "none"
    /\ sleeps = seq - 1
    /\ nfail = 0
    /\ ideal = FALSE
    /\ noise = FALSE
    /\ report = <<>>
    /\ payload_bytes = Payload
    /\ sum_input = <<>>
    /\ sum_output = <<>>

InitParse == InitParseWith("any", {4660}, {1})

InitShort == InitParseWith("short", {4660, 1}, {1, 2})

InitLen19 == InitParseWith("len19", {0, 1, 4660, 65535}, {1, 2, 255, 65535})

SpecParse == InitParse /\ [][Parse]_vars

SpecShort == InitShort /\ [][Parse]_vars

SpecLen19 == InitLen19 /\ [][Parse]_vars

(* C15: a datagram with receivedLength < skip + 8 is not a reply: it is    *)
(* not counted, raises no error and polling continues; a 24-byte datagram  *)
(* starting 0x45 is one of them whatever its other bytes.                  *)
C15_ShortDatagramIgnored ==
    /\ [][(pc = "parse" /\ pc' # "parse" /\ ~WireParses(buf)) =>
            /\ pc' = "poll"
            /\ outcome' = "none"
            /\ UNCHANGED <<received_count, rtts, transmitted, sent_count, seq, running>>]_vars
    /\ [][(pc = "parse" /\ pc' # "parse" /\ Len(buf) = 24 /\ buf[1] = 69) =>
            /\ pc' = "poll"
            /\ UNCHANGED <<received_count, rtts, outcome>>]_vars

C15_Witness ==
    /\ pc = "poll" /\ noise /\ received_count = 0 /\ rtts = <<>> /\ seq = 2 /\ ident = 1

(* C16: a datagram of 19 bytes whose first byte is 0x45 is never recorded  *)
(* as a reply, whatever its other 18 bytes and whatever identifier and     *)
(* sequence number are awaited.                                            *)
C16_Len19NotAReply ==
    [][(pc = "parse" /\ pc' # "parse" /\ Len(buf) = 19 /\ buf[1] = 69) =>
          /\ pc' = "poll"
          /\ outcome' # "replied"
          /\ UNCHANGED <<received_count, rtts>>]_vars

C16_Witness ==
    /\ pc = "poll" /\ noise /\ received_count = 0 /\ ident = 65535 /\ seq = 255

(* C20: reply parsing never reads outside the received data: every index   *)
(* of buf read is below n, and the slice buf[start..n] has start <= n, for *)
(* every length and every first byte (IHL nibbles 0..15).                  *)
C20_ReadsWithinReceived ==
    pc = "parse" =>
        /\ \A i \in BufReads(buf) : i >= 0 /\ i < Len(buf)
        /\ ~TooShort(buf) => StartOf(buf) + IcmpHeaderLen <= Len(buf)
        /\ StartOf(buf) \in {0} \cup {4 * k : k \in 0..15}

C20_Witness ==
    /\ pc = "parse" /\ Len(buf) = 68 /\ buf[1] = 79
    /\ BufReads(buf) = {0, 60, 61, 64, 65, 66, 67}

=============================================================================
